---- MODULE Spec2Model ----
(***************************************************************************)
(* The backtesting engine (BacktestingService.runBacktest) of the trading  *)
(* API, with the advisory-analysis validation it consumes.                 *)
(*                                                                         *)
(* The repository holds two versions of the engine:                        *)
(*   "batch"  src/server/services/backtesting.ts (needs 60 bars, batches)  *)
(*   "db"     src/unnamed/part_007 (filters by date, persists the result)  *)
(* Both share updateOpenPositions, executePosition, closePosition,         *)
(* calculateCurrentBalance and closeAllPositions line for line; the        *)
(* variable `variant` selects the version a run executes.                  *)
(*                                                                         *)
(* Numbers: prices and balances are integers.  A risk percentage is kept   *)
(* in half-percent units (1 = 0.5%, 2 = 1.0%, 4 = 2.0%), 0 standing for an *)
(* absent (undefined) risk_percentage.  A timestamp is the number of the   *)
(* bar (1, 2, ...); 0 stands for an unset exit_time / exit_price.          *)
(***************************************************************************)
EXTENDS Integers, Sequences, FiniteSets, TLC

\* ------------------------------------------------------------------ bounds

\* Bars a run processes after its warm-up offset (at most).
MaxBars == 4

\* The same, for the runs checked under fairness.
MaxFairBars == 3

\* Trades and equity points after the first that calculateStatistics is
\* given (at most).
MaxStatTrades == 2
MaxCurveTail == 2

\* Open positions validateNewPosition is given (at most).
MaxOpenGiven == 3

\* The bars each of two concurrent runs processes.
MaxRunBars == 2

\* ------------------------------------------------------- program constants

\* runBacktest's default initialBalance.
InitialBalance == 100000

\* positions.length < 3: the engine's cap on open positions.
MaxOpenPositions == 3

\* analysis.confidence >= 75: the engine's confidence threshold.
MinTradeConfidence == 75

\* ------------------------------------------------------------------ inputs

Variants == {"batch", "db"}

\* start and end dates of the requested window: end before, at and after
\* the start.
StartDates == {2}
EndDates == {1, 2, 3}

\* The bars the market data provider delivers here: low <= high, closing at
\* the high.  85 is below and 116 above every level a recommendation names.
BarLows == {85, 100}
BarHighs == {100, 116}

BarShapes ==
  {b \in [low : BarLows, high : BarHighs, close : BarHighs] :
     b.close = b.high}

\* What the advisory model can answer: <<entry, stop, target>> as a long and
\* as a short would have them, or missing (0) levels; either can come with
\* either action.  Risk percentages: none, 1.0% and (out of range) 2.5%.
RecPriceLevels ==
  {<<100, 95, 115>>, <<100, 105, 85>>, <<0, 0, 0>>}

RecRiskPercentages == {0, 2, 5}

RawAnalyses ==
  {[trend |-> t, confidence |-> c, mean_reversion |-> m,
    recommendation |-> [action |-> a, entry_price |-> l[1], stop_loss |-> l[2],
                        take_profit |-> l[3], risk_percentage |-> r]] :
     t \in {"bullish", "bearish"}, c \in {74, 75, 90}, m \in {FALSE},
     a \in {"buy", "sell", "hold"}, l \in RecPriceLevels,
     r \in RecRiskPercentages}

\* ------------------------------------------------------------------- state

VARIABLES
  variant,       \* which version of the engine runs
  startDate,     \* runBacktest's startDate
  endDate,       \* runBacktest's endDate
  pc,            \* where runBacktest stands
  bar,           \* currentBar (after the loop: the last bar)
  positions,     \* the positions array
  k,             \* index of updateOpenPositions' for-of loop (1 outside it)
  balance,       \* the running balance
  equityCurve,   \* the equityCurve array
  result,        \* the BacktestResult (a record once assembled)
  closedCount,   \* history: how many trades were spliced out of positions
  realizedPnl,   \* history: the sum of the pnl of those trades
  lastOpen,      \* history: the analysis this bar's open came from
  analysisFailed,\* history: this bar's analysis threw
  call           \* a service call outside the bar loop: its input and outcome

vars ==
  <<variant, startDate, endDate, pc, bar, positions, k, balance, equityCurve,
    result, closedCount, realizedPnl, lastOpen, analysisFailed, call>>

\* The variables of the engine's run.
engineVars ==
  <<variant, startDate, endDate, pc, bar, positions, k, balance, equityCurve,
    result, closedCount, realizedPnl, lastOpen, analysisFailed>>

Abs(x) == IF x < 0 THEN -x ELSE x

NoResult == [assembled |-> FALSE]

NoOpen == [opened |-> FALSE]

NoCall == [op |-> "none"]

\* ------------------------------------------------------- advisory validation

\* aiAnalysis.getMinimumConfidence
getMinimumConfidence(analysis) ==
  IF \/ analysis.trend = "bullish" /\ analysis.recommendation.action = "sell"
     \/ analysis.trend = "bearish" /\ analysis.recommendation.action = "buy"
  THEN 90
  ELSE IF analysis.mean_reversion THEN 80 ELSE 75

\* aiAnalysis.validatePriceLevels.  reward / risk is compared without
\* dividing: with risk = 0 the quotient is Infinity (rejected) unless reward
\* is 0 too, and then it is NaN, which fails neither comparison.
validatePriceLevels(analysis) ==
  LET rec == analysis.recommendation
      risk == Abs(rec.entry_price - rec.stop_loss)
      reward == Abs(rec.take_profit - rec.entry_price)
  IN  IF rec.entry_price = 0 \/ rec.stop_loss = 0 \/ rec.take_profit = 0
      THEN FALSE
      ELSE IF risk = 0
      THEN reward = 0
      ELSE ~(reward < risk) /\ ~(reward > 4 * risk)

\* aiAnalysis.validateAnalysis
validateAnalysis(analysis) ==
  IF analysis.confidence = 0
  THEN FALSE
  ELSE IF analysis.confidence < 0 \/ analysis.confidence > 100
  THEN FALSE
  ELSE IF /\ analysis.recommendation.action # "hold"
          /\ \/ analysis.confidence < getMinimumConfidence(analysis)
             \/ ~validatePriceLevels(analysis)
  THEN FALSE
  ELSE IF /\ analysis.recommendation.risk_percentage # 0
          /\ \/ analysis.recommendation.risk_percentage < 1
             \/ analysis.recommendation.risk_percentage > 4
  THEN FALSE
  ELSE TRUE

\* ------------------------------------------------------------ risk manager

\* riskManagement.MIN_RISK_PERCENTAGE (0.5%), MAX_RISK_PERCENTAGE (2.0%) and
\* MAX_TOTAL_RISK_PERCENTAGE (6.0%), in half-percent units.
MIN_RISK_PERCENTAGE == 1
MAX_RISK_PERCENTAGE == 4
MAX_TOTAL_RISK_PERCENTAGE == 12

\* riskManagement.validateRiskPercentage
validateRiskPercentage(riskPercentage) ==
  riskPercentage >= MIN_RISK_PERCENTAGE /\ riskPercentage <= MAX_RISK_PERCENTAGE

\* calculatePositionSize without the check of the risk percentage.
calculatePositionSizeUnchecked(params) ==
  LET riskPerShare == Abs(params.entry_price - params.stop_loss)
      reward == Abs(params.take_profit - params.entry_price)
  IN  IF riskPerShare = 0
      THEN [error |-> "Invalid stop loss"]
      ELSE [error |-> "none",
            size |-> (params.accountBalance * params.riskPercentage)
                       \div (200 * riskPerShare),
            riskAmount200 |-> params.accountBalance * params.riskPercentage,
            maxRiskAmount200 |-> params.accountBalance * MAX_RISK_PERCENTAGE,
            rewardPerShare |-> reward,
            riskPerShare |-> riskPerShare]

\* riskManagement.calculatePositionSize.  riskAmount = balance * pct / 100 is
\* balance * riskPercentage / 200 in half-percent units; the amounts are kept
\* times 200 so that they stay integers.
calculatePositionSize(params) ==
  LET riskPerShare == Abs(params.entry_price - params.stop_loss)
      reward == Abs(params.take_profit - params.entry_price)
  IN  IF ~validateRiskPercentage(params.riskPercentage)
      THEN [error |-> "Invalid risk percentage"]
      ELSE IF riskPerShare = 0
      THEN [error |-> "Invalid stop loss"]
      ELSE [error |-> "none",
            size |-> (params.accountBalance * params.riskPercentage)
                       \div (200 * riskPerShare),
            riskAmount200 |-> params.accountBalance * params.riskPercentage,
            maxRiskAmount200 |-> params.accountBalance * MAX_RISK_PERCENTAGE,
            rewardPerShare |-> reward,
            riskPerShare |-> riskPerShare]

\* ------------------------------------------------------------------ engine

\* executePosition: the trade for an analysis, or a record with ok = FALSE
\* for its null.  riskAmount = balance * (risk_percentage || riskPerTrade),
\* riskPerTrade = 0.01; risk_percentage is in half-percent units here.
executePosition(analysis, currentBar, bal) ==
  LET rec == analysis.recommendation
      riskPerShare == Abs(rec.entry_price - rec.stop_loss)
      positionSize ==
        IF rec.risk_percentage # 0
        THEN (bal * rec.risk_percentage) \div (2 * riskPerShare)
        ELSE bal \div (100 * riskPerShare)
  IN  IF rec.entry_price = 0 \/ rec.stop_loss = 0 \/ rec.take_profit = 0
      THEN [ok |-> FALSE]
      ELSE [ok |-> TRUE,
            side |-> IF rec.action = "buy" THEN "long" ELSE "short",
            entry_price |-> rec.entry_price,
            stop_loss |-> rec.stop_loss,
            take_profit |-> rec.take_profit,
            size |-> positionSize,
            entry_time |-> currentBar.timestamp,
            exit_time |-> 0,
            exit_price |-> 0,
            pnl |-> 0,
            reason |-> "none"]

\* closePosition with the pnl of a long for either side.
closePositionIgnoresSide(position, exitPrice, exitTime, why) ==
  [position EXCEPT
     !.exit_price = exitPrice,
     !.exit_time = exitTime,
     !.reason = why,
     !.pnl = (exitPrice - position.entry_price) * position.size]

\* closePosition (pnl_percentage, which no code reads, is left out)
closePosition(position, exitPrice, exitTime, why) ==
  [position EXCEPT
     !.exit_price = exitPrice,
     !.exit_time = exitTime,
     !.reason = why,
     !.pnl = IF position.side = "long"
             THEN (exitPrice - position.entry_price) * position.size
             ELSE (position.entry_price - exitPrice) * position.size]

\* updateOpenPositions, "Check stop loss", for one position
checkStopLoss(position, currentBar) ==
  IF position.side = "long" /\ currentBar.low <= position.stop_loss
  THEN closePosition(position, position.stop_loss, currentBar.timestamp,
                     "stop_loss")
  ELSE IF position.side = "short" /\ currentBar.high >= position.stop_loss
  THEN closePosition(position, position.stop_loss, currentBar.timestamp,
                     "stop_loss")
  ELSE position

\* updateOpenPositions, "Check take profit", for one position
checkTakeProfit(position, currentBar) ==
  IF position.side = "long" /\ currentBar.high >= position.take_profit
  THEN closePosition(position, position.take_profit, currentBar.timestamp,
                     "take_profit")
  ELSE IF position.side = "short" /\ currentBar.low <= position.take_profit
  THEN closePosition(position, position.take_profit, currentBar.timestamp,
                     "take_profit")
  ELSE position

\* positions.filter((p) => !p.exit_time)
RECURSIVE filterOpen(_)
filterOpen(ps) ==
  IF ps = <<>>
  THEN <<>>
  ELSE IF Head(ps).exit_time = 0
  THEN <<Head(ps)>> \o filterOpen(Tail(ps))
  ELSE filterOpen(Tail(ps))

\* the trades the filter drops
RECURSIVE filterClosed(_)
filterClosed(ps) ==
  IF ps = <<>>
  THEN <<>>
  ELSE IF Head(ps).exit_time # 0
  THEN <<Head(ps)>> \o filterClosed(Tail(ps))
  ELSE filterClosed(Tail(ps))

\* sum of (pos.pnl || 0)
RECURSIVE sumPnl(_)
sumPnl(ps) == IF ps = <<>> THEN 0 ELSE Head(ps).pnl + sumPnl(Tail(ps))

\* calculateCurrentBalance
calculateCurrentBalance(bal, ps) == bal + sumPnl(ps)

\* closeAllPositions that leaves the open positions open.
closeAllPositionsSkips(ps, lastBar) == ps

\* closeAllPositions
closeAllPositions(ps, lastBar) ==
  [j \in 1..Len(ps) |->
     IF ps[j].exit_time = 0
     THEN closePosition(ps[j], lastBar.close, lastBar.timestamp,
                        "end_of_backtest")
     ELSE ps[j]]

\* calculateStatistics: the trade counts
RECURSIVE countWhere(_, _)
countWhere(ps, winning) ==
  IF ps = <<>>
  THEN 0
  ELSE (IF Head(ps).exit_price # 0 /\ ((Head(ps).pnl > 0) = winning)
        THEN 1 ELSE 0) + countWhere(Tail(ps), winning)

\* The sum of the pnl of the winning / the losing closed trades.
RECURSIVE sumPnlWhere(_, _)
sumPnlWhere(ps, winning) ==
  IF ps = <<>>
  THEN 0
  ELSE (IF Head(ps).exit_price # 0 /\ ((Head(ps).pnl > 0) = winning)
        THEN Head(ps).pnl ELSE 0) + sumPnlWhere(Tail(ps), winning)

\* A JavaScript number: a quotient of integers with a positive denominator,
\* or one of the values a division by zero gives.
NaN == [kind |-> "NaN"]
Infinity == [kind |-> "Infinity"]
MinusInfinity == [kind |-> "-Infinity"]

Num(n) == [kind |-> "finite", num |-> n, den |-> 1]

\* n / d as JavaScript divides integers (rounding left aside).
Divide(n, d) ==
  IF d > 0 THEN [kind |-> "finite", num |-> n, den |-> d]
  ELSE IF d < 0 THEN [kind |-> "finite", num |-> -n, den |-> -d]
  ELSE IF n = 0 THEN NaN
  ELSE IF n > 0 THEN Infinity
  ELSE MinusInfinity

\* The drawdown loop with the percentage taken of the balance, not the peak.
RECURSIVE drawdownOfBalance(_, _, _, _)
drawdownOfBalance(curve, peak, maxDrawdown, maxDrawdownPercentage) ==
  IF curve = <<>>
  THEN [max_drawdown |-> maxDrawdown,
        max_drawdown_percentage |-> maxDrawdownPercentage]
  ELSE LET pointBalance == Head(curve).balance
           newPeak == IF pointBalance > peak THEN pointBalance ELSE peak
           drawdown == newPeak - pointBalance
       IN  IF drawdown > maxDrawdown
           THEN drawdownOfBalance(Tail(curve), newPeak, drawdown,
                                  Divide(drawdown * 100, pointBalance))
           ELSE drawdownOfBalance(Tail(curve), newPeak, maxDrawdown,
                                  maxDrawdownPercentage)

\* calculateStatistics, "Calculate max drawdown": the loop over the points
\* that are left, with the peak and the maxima so far.
RECURSIVE maxDrawdownFrom(_, _, _, _)
maxDrawdownFrom(curve, peak, maxDrawdown, maxDrawdownPercentage) ==
  IF curve = <<>>
  THEN [max_drawdown |-> maxDrawdown,
        max_drawdown_percentage |-> maxDrawdownPercentage]
  ELSE LET pointBalance == Head(curve).balance
           newPeak == IF pointBalance > peak THEN pointBalance ELSE peak
           drawdown == newPeak - pointBalance
       IN  IF drawdown > maxDrawdown
           THEN maxDrawdownFrom(Tail(curve), newPeak, drawdown,
                                Divide(drawdown * 100, newPeak))
           ELSE maxDrawdownFrom(Tail(curve), newPeak, maxDrawdown,
                                maxDrawdownPercentage)

\* calculateStatistics of the version of the engine: "batch" divides the
\* winners by the closed trades and has total_wins for the profit factor
\* when nothing was lost, "db" divides by (length || 1) and has Infinity.
calculateStatistics(ps, initialBalance, curve, version) ==
  LET closed == countWhere(ps, TRUE) + countWhere(ps, FALSE)
      winners == countWhere(ps, TRUE)
      losers == countWhere(ps, FALSE)
      totalWins == sumPnlWhere(ps, TRUE)
      totalLosses == Abs(sumPnlWhere(ps, FALSE))
      drawdown == maxDrawdownFrom(curve, initialBalance, 0, Num(0))
  IN  [total_trades |-> closed,
       winning_trades |-> winners,
       losing_trades |-> losers,
       win_rate |-> IF version = "db"
                    THEN Divide(winners, IF closed # 0 THEN closed ELSE 1)
                    ELSE Divide(winners, closed),
       average_win |-> IF winners > 0 THEN Divide(totalWins, winners)
                       ELSE Num(0),
       average_loss |-> IF losers > 0 THEN Divide(totalLosses, losers)
                        ELSE Num(0),
       profit_factor |-> IF totalLosses > 0
                         THEN Divide(totalWins, totalLosses)
                         ELSE IF version = "db"
                         THEN (IF totalWins > 0 THEN Infinity ELSE Num(0))
                         ELSE Num(totalWins),
       max_drawdown |-> drawdown.max_drawdown,
       max_drawdown_percentage |-> drawdown.max_drawdown_percentage]

\* ------------------------------------------- risk manager: the validations

\* x < n and x > n for a JavaScript number x and an integer n: both are
\* false of NaN.
LessThan(x, n) ==
  IF x.kind = "finite" THEN x.num < n * x.den ELSE x.kind = "-Infinity"

GreaterThan(x, n) ==
  IF x.kind = "finite" THEN x.num > n * x.den ELSE x.kind = "Infinity"

\* riskManagement.calculateTotalRisk
RECURSIVE calculateTotalRisk(_)
calculateTotalRisk(ps) ==
  IF ps = <<>>
  THEN 0
  ELSE calculateTotalRisk(Tail(ps)) + Head(ps).risk_percentage

Valid == [isValid |-> TRUE, reason |-> "none"]

Invalid(why) == [isValid |-> FALSE, reason |-> why]

\* validateNewPosition without the check of the total risk.
validateNewPositionNoTotal(params, openPositions) ==
  LET riskPerShare == Abs(params.entry_price - params.stop_loss)
      rewardPerShare == Abs(params.take_profit - params.entry_price)
      riskRewardRatio == Divide(rewardPerShare, riskPerShare)
  IN  IF Len(openPositions) >= 3
      THEN Invalid("Maximum number of positions (3) reached")
      ELSE IF ~validateRiskPercentage(params.riskPercentage)
      THEN Invalid("Risk percentage outside allowed range")
      ELSE IF LessThan(riskRewardRatio, 1)
      THEN Invalid("Risk-reward ratio below minimum 1.0")
      ELSE IF GreaterThan(riskRewardRatio, 4)
      THEN Invalid("Risk-reward ratio above maximum 4.0")
      ELSE Valid

\* validateNewPosition without the check of the number of positions.
validateNewPositionNoCount(params, openPositions) ==
  LET totalRisk == calculateTotalRisk(openPositions) + params.riskPercentage
      riskPerShare == Abs(params.entry_price - params.stop_loss)
      rewardPerShare == Abs(params.take_profit - params.entry_price)
      riskRewardRatio == Divide(rewardPerShare, riskPerShare)
  IN  IF ~validateRiskPercentage(params.riskPercentage)
      THEN Invalid("Risk percentage outside allowed range")
      ELSE IF totalRisk > MAX_TOTAL_RISK_PERCENTAGE
      THEN Invalid("Total risk would exceed maximum 6%")
      ELSE IF LessThan(riskRewardRatio, 1)
      THEN Invalid("Risk-reward ratio below minimum 1.0")
      ELSE IF GreaterThan(riskRewardRatio, 4)
      THEN Invalid("Risk-reward ratio above maximum 4.0")
      ELSE Valid

\* validateNewPosition without the upper limit of the risk-reward ratio.
validateNewPositionNoCeiling(params, openPositions) ==
  LET totalRisk == calculateTotalRisk(openPositions) + params.riskPercentage
      riskPerShare == Abs(params.entry_price - params.stop_loss)
      rewardPerShare == Abs(params.take_profit - params.entry_price)
      riskRewardRatio == Divide(rewardPerShare, riskPerShare)
  IN  IF Len(openPositions) >= 3
      THEN Invalid("Maximum number of positions (3) reached")
      ELSE IF ~validateRiskPercentage(params.riskPercentage)
      THEN Invalid("Risk percentage outside allowed range")
      ELSE IF totalRisk > MAX_TOTAL_RISK_PERCENTAGE
      THEN Invalid("Total risk would exceed maximum 6%")
      ELSE IF LessThan(riskRewardRatio, 1)
      THEN Invalid("Risk-reward ratio below minimum 1.0")
      ELSE Valid

\* riskManagement.validateNewPosition.  The reasons are the messages without
\* the numbers their templates insert.
validateNewPosition(params, openPositions) ==
  LET totalRisk == calculateTotalRisk(openPositions) + params.riskPercentage
      riskPerShare == Abs(params.entry_price - params.stop_loss)
      rewardPerShare == Abs(params.take_profit - params.entry_price)
      riskRewardRatio == Divide(rewardPerShare, riskPerShare)
  IN  IF Len(openPositions) >= 3
      THEN Invalid("Maximum number of positions (3) reached")
      ELSE IF ~validateRiskPercentage(params.riskPercentage)
      THEN Invalid("Risk percentage outside allowed range")
      ELSE IF totalRisk > MAX_TOTAL_RISK_PERCENTAGE
      THEN Invalid("Total risk would exceed maximum 6%")
      ELSE IF LessThan(riskRewardRatio, 1)
      THEN Invalid("Risk-reward ratio below minimum 1.0")
      ELSE IF GreaterThan(riskRewardRatio, 4)
      THEN Invalid("Risk-reward ratio above maximum 4.0")
      ELSE Valid

\* riskManagement.validateStopLossModification
validateStopLossModification(position, newStopLoss) ==
  LET isLong == position.entry_price < position.current_price
      isStopLossImproving ==
        IF isLong THEN newStopLoss > position.stop_loss
        ELSE newStopLoss < position.stop_loss
      newRisk == Abs(position.entry_price - newStopLoss)
      reward == Abs(position.take_profit - position.entry_price)
      newRiskRewardRatio == Divide(reward, newRisk)
  IN  IF ~isStopLossImproving
      THEN Invalid("Stop loss can only be modified in the direction of profit")
      ELSE IF LessThan(newRiskRewardRatio, 1)
      THEN Invalid("New risk-reward ratio would be below minimum 1.0")
      ELSE Valid

\* The gate with the cap off by one.
shouldExecuteOffByOne(ps, analysis) ==
  /\ Len(ps) <= MaxOpenPositions
  /\ analysis.recommendation.action # "hold"
  /\ analysis.confidence >= MinTradeConfidence

\* The engine's gate on acting on an analysis.
shouldExecute(ps, analysis) ==
  /\ Len(ps) < MaxOpenPositions
  /\ analysis.recommendation.action # "hold"
  /\ analysis.confidence >= MinTradeConfidence

\* ------------------------------------------------------------------ actions

Init ==
  /\ variant \in Variants
  /\ startDate \in StartDates
  /\ endDate \in EndDates
  /\ pc = "init"
  /\ bar = [timestamp |-> 0, low |-> 100, high |-> 100, close |-> 100]
  /\ positions = <<>>
  /\ k = 1
  /\ balance = InitialBalance
  /\ equityCurve = <<>>
  /\ result = NoResult
  /\ closedCount = 0
  /\ realizedPnl = 0
  /\ lastOpen = NoOpen
  /\ analysisFailed = FALSE
  /\ call = NoCall

\* runBacktest up to the loop: the date check, the fetch of the bars and
\* the check that there are enough of them.  enoughBars: bars.length >= 60
\* ("batch"), filteredBars.length > 0 ("db").  The "db" version starts the
\* equity curve with a point at the first bar of the window, which is at or
\* before the first bar the loop processes (timestamp 0 here).
Start ==
  /\ pc = "init"
  /\ \E enoughBars \in BOOLEAN :
       IF startDate > endDate \/ ~enoughBars
       THEN /\ pc' = "failed"
            /\ UNCHANGED equityCurve
       ELSE /\ pc' = "loop"
            /\ equityCurve' =
                 IF variant = "db"
                 THEN <<[timestamp |-> 0, balance |-> InitialBalance]>>
                 ELSE <<>>
  /\ UNCHANGED <<call, variant, startDate, endDate, bar, positions, k, balance,
                 result, closedCount, realizedPnl, lastOpen, analysisFailed>>

\* The loop head: the next bar, if the series has one (quickDevelopmentMode
\* is off, its default, so the "db" loop ends with the series only).
NextBar(maxBars) ==
  /\ pc = "loop"
  /\ bar.timestamp < maxBars
  /\ \E shape \in BarShapes :
       bar' = [timestamp |-> bar.timestamp + 1, low |-> shape.low,
               high |-> shape.high, close |-> shape.close]
  /\ pc' = "check_sl"
  /\ UNCHANGED <<call, variant, startDate, endDate, positions, k, balance, equityCurve,
                 result, closedCount, realizedPnl, lastOpen, analysisFailed>>

\* updateOpenPositions: the stop-loss check of positions[k]
CheckStopLoss ==
  /\ pc = "check_sl"
  /\ k <= Len(positions)
  /\ positions' = [positions EXCEPT ![k] = checkStopLoss(positions[k], bar)]
  /\ pc' = "check_tp"
  /\ UNCHANGED <<call, variant, startDate, endDate, bar, k, balance, equityCurve,
                 result, closedCount, realizedPnl, lastOpen, analysisFailed>>

\* updateOpenPositions: the take-profit check of positions[k]
CheckTakeProfit ==
  /\ pc = "check_tp"
  /\ positions' = [positions EXCEPT ![k] = checkTakeProfit(positions[k], bar)]
  /\ k' = k + 1
  /\ pc' = "check_sl"
  /\ UNCHANGED <<call, variant, startDate, endDate, bar, balance, equityCurve,
                 result, closedCount, realizedPnl, lastOpen, analysisFailed>>

\* updateOpenPositions: "Remove closed positions"
RemoveClosed ==
  /\ pc = "check_sl"
  /\ k > Len(positions)
  /\ positions' = filterOpen(positions)
  /\ closedCount' = closedCount + Len(filterClosed(positions))
  /\ realizedPnl' = realizedPnl + sumPnl(filterClosed(positions))
  /\ k' = 1
  /\ pc' = "analyze"
  /\ UNCHANGED <<call, variant, startDate, endDate, bar, balance, equityCurve,
                 result, lastOpen, analysisFailed>>

\* The try block: chart, analysis, and the trade it leads to.
AnalyzeOk ==
  /\ pc = "analyze"
  /\ \E analysis \in RawAnalyses :
       /\ validateAnalysis(analysis)
       /\ LET position == executePosition(analysis, bar, balance)
          IN  IF shouldExecute(positions, analysis) /\ position.ok
              THEN /\ positions' =
                        Append(positions,
                               [f \in DOMAIN position \ {"ok"} |-> position[f]])
                   /\ lastOpen' = [opened |-> TRUE,
                                   confidence |-> analysis.confidence,
                                   recommendation |-> analysis.recommendation,
                                   balance |-> balance]
              ELSE UNCHANGED <<positions, lastOpen>>
  /\ pc' = "equity"
  /\ UNCHANGED <<call, variant, startDate, endDate, bar, k, balance, equityCurve,
                 result, closedCount, realizedPnl, analysisFailed>>

\* An analysis failure that is not caught and ends the run.
AnalyzeFailAborts ==
  /\ pc = "analyze"
  /\ analysisFailed' = TRUE
  /\ pc' = "failed"
  /\ UNCHANGED <<call, variant, startDate, endDate, bar, positions, k, balance,
                 equityCurve, result, closedCount, realizedPnl, lastOpen>>

\* The catch block: the chart, the technical signals or the analysis threw
\* (a collaborator error, or an answer validateAnalysis rejects).
AnalyzeFail ==
  /\ pc = "analyze"
  /\ \E collaboratorError \in BOOLEAN :
       \/ collaboratorError
       \/ \E analysis \in RawAnalyses : ~validateAnalysis(analysis)
  /\ analysisFailed' = TRUE
  /\ pc' = "equity"
  /\ UNCHANGED <<call, variant, startDate, endDate, bar, positions, k, balance,
                 equityCurve, result, closedCount, realizedPnl, lastOpen>>

\* "Update equity curve"
UpdateEquity ==
  /\ pc = "equity"
  /\ balance' = calculateCurrentBalance(balance, positions)
  /\ equityCurve' =
       Append(equityCurve, [timestamp |-> bar.timestamp, balance |-> balance'])
  /\ pc' = "loop"
  /\ lastOpen' = NoOpen
  /\ analysisFailed' = FALSE
  /\ UNCHANGED <<call, variant, startDate, endDate, bar, positions, k, result,
                 closedCount, realizedPnl>>

\* After the loop: closeAllPositions, calculateStatistics (each computed
\* once, as the code does), the result.  The
\* "db" loop starts at min(20, length - 1) and so has processed a bar; the
\* "batch" loop starts at 60 and processes none when there are just 60 bars.
Finalize ==
  /\ pc = "loop"
  /\ variant = "db" => bar.timestamp >= 1
  /\ \E closed \in {closeAllPositions(positions, bar)} :
     \E stats \in {calculateStatistics(closed, InitialBalance, equityCurve,
                                       variant)} :
         /\ positions' = closed
         /\ result' = [assembled |-> TRUE,
                       initial_balance |-> InitialBalance,
                       final_balance |-> balance,
                       total_trades |-> stats.total_trades,
                       winning_trades |-> stats.winning_trades,
                       losing_trades |-> stats.losing_trades,
                       win_rate |-> stats.win_rate,
                       profit_factor |-> stats.profit_factor,
                       max_drawdown |-> stats.max_drawdown,
                       max_drawdown_percentage |->
                         stats.max_drawdown_percentage,
                       trades |-> closed,
                       equity_curve |-> equityCurve]
  /\ pc' = IF variant = "db" THEN "persist" ELSE "done"
  /\ UNCHANGED <<call, variant, startDate, endDate, bar, k, balance, equityCurve,
                 closedCount, realizedPnl, lastOpen, analysisFailed>>

\* "db" only: the result is stored, and returned if the store succeeds.
Persist ==
  /\ pc = "persist"
  /\ \E stored \in BOOLEAN : pc' = IF stored THEN "done" ELSE "failed"
  /\ UNCHANGED <<call, variant, startDate, endDate, bar, positions, k, balance,
                 equityCurve, result, closedCount, realizedPnl, lastOpen, analysisFailed>>

Next ==
  \/ Start
  \/ NextBar(MaxBars)
  \/ CheckStopLoss
  \/ CheckTakeProfit
  \/ RemoveClosed
  \/ AnalyzeOk
  \/ AnalyzeFail
  \/ UpdateEquity
  \/ Finalize
  \/ Persist

Spec == Init /\ [][Next]_vars

\* The run under fairness: a step that can be taken is taken (the event loop
\* resumes every continuation, and every collaborator call returns or throws).
FairNext ==
  \/ Start
  \/ NextBar(MaxFairBars)
  \/ CheckStopLoss
  \/ CheckTakeProfit
  \/ RemoveClosed
  \/ AnalyzeOk
  \/ AnalyzeFail
  \/ UpdateEquity
  \/ Finalize
  \/ Persist

FairSpec == Init /\ [][FairNext]_vars /\ WF_vars(FairNext)

\* ------------------------------------------------- advisory request retries

\* makeRequest's default for retries.
DefaultRetries == 3

\* The factor of makeRequest's delay, in ms.
BackoffBaseMs == 1000

\* What sendRequest throws: the provider is unreachable, its answer has no
\* JSON, or validateAnalysis rejects the answer.
RequestErrors == {"provider", "parse", "invalid"}

\* A delay that does not grow.
backoffDelayConstant(retries) == BackoffBaseMs

\* makeRequest: Math.pow(2, 4 - retries) * 1000
backoffDelay(retries) == 2 ^ (4 - retries) * BackoffBaseMs

\* The engine has reached the analysis of its first bar and calls
\* analyzeChart, which calls makeRequest with the default retries.
RetryInit ==
  /\ variant \in Variants
  /\ startDate = 2
  /\ endDate = 3
  /\ pc = "analyze"
  /\ \E shape \in BarShapes :
       bar = [timestamp |-> 1, low |-> shape.low, high |-> shape.high,
              close |-> shape.close]
  /\ positions = <<>>
  /\ k = 1
  /\ balance = InitialBalance
  /\ equityCurve = IF variant = "db"
                   THEN <<[timestamp |-> 0, balance |-> InitialBalance]>>
                   ELSE <<>>
  /\ result = NoResult
  /\ closedCount = 0
  /\ realizedPnl = 0
  /\ lastOpen = NoOpen
  /\ analysisFailed = FALSE
  /\ call = [op |-> "makeRequest", status |-> "sending",
             retries |-> DefaultRetries, delays |-> <<>>, error |-> "none"]

\* makeRequest's try: sendRequest returns an analysis.
SendRequestReturns ==
  /\ call.op = "makeRequest"
  /\ call.status = "sending"
  /\ call' = [call EXCEPT !.status = "returned"]
  /\ UNCHANGED engineVars

\* makeRequest's catch: with retries left it waits, without it rethrows.
SendRequestThrows ==
  /\ call.op = "makeRequest"
  /\ call.status = "sending"
  /\ \E error \in RequestErrors :
       IF call.retries > 0
       THEN call' = [call EXCEPT
                       !.status = "waiting",
                       !.error = error,
                       !.delays = Append(call.delays, backoffDelay(call.retries))]
       ELSE call' = [call EXCEPT !.status = "thrown", !.error = error]
  /\ UNCHANGED engineVars

\* The timer fires: makeRequest calls itself with retries - 1.
DelayElapsed ==
  /\ call.op = "makeRequest"
  /\ call.status = "waiting"
  /\ call' = [call EXCEPT !.status = "sending", !.retries = call.retries - 1]
  /\ UNCHANGED engineVars

\* The engine's try block goes on with the analysis makeRequest returned.
RequestReturned ==
  /\ call.op = "makeRequest"
  /\ call.status = "returned"
  /\ AnalyzeOk

\* The engine's catch block receives what makeRequest threw.
RequestThrown ==
  /\ call.op = "makeRequest"
  /\ call.status = "thrown"
  /\ AnalyzeFail

RetryNext ==
  \/ SendRequestReturns
  \/ SendRequestThrows
  \/ DelayElapsed
  \/ RequestReturned
  \/ RequestThrown
  \/ UpdateEquity

\* Every timer fires and every request returns or throws.
RetrySpec == RetryInit /\ [][RetryNext]_vars /\ WF_vars(RetryNext)

\* -------------------------------------------------------------- statistics

\* The engine's variables while a service is called on its own.
EngineIdle ==
  /\ startDate = 2
  /\ endDate = 3
  /\ pc = "init"
  /\ bar = [timestamp |-> 0, low |-> 100, high |-> 100, close |-> 100]
  /\ positions = <<>>
  /\ k = 1
  /\ balance = InitialBalance
  /\ equityCurve = <<>>
  /\ result = NoResult
  /\ closedCount = 0
  /\ realizedPnl = 0
  /\ lastOpen = NoOpen
  /\ analysisFailed = FALSE

\* The sequences over set of length at most n.
SeqUpTo(set, n) == UNION {[1..m -> set] : m \in 0..n}

\* The trades calculateStatistics is given: closeAllPositions has closed
\* every one.  A long and a short of 200 shares entered at 100, closed at a
\* bar's close.
StatOpenTrades ==
  {[side |-> sd, entry_price |-> 100, stop_loss |-> l[1], take_profit |-> l[2],
    size |-> 200, entry_time |-> 1, exit_time |-> 0, exit_price |-> 0,
    pnl |-> 0, reason |-> "none"] :
     sd \in {"long"}, l \in {<<95, 115>>}}

StatTrades ==
  {closePosition(t, price, 2, "end_of_backtest") :
     t \in StatOpenTrades, price \in BarLows \cup BarHighs}

\* The balances of the points after the first, which has the initial
\* balance: the first bar is reached with no position open.
CurveBalances == {0, 90000, 100000, 110000}

StatCurves ==
  {[j \in 1..(Len(tail) + 1) |->
      [timestamp |-> j,
       balance |-> IF j = 1 THEN InitialBalance ELSE tail[j - 1]]] :
     tail \in SeqUpTo(CurveBalances, MaxCurveTail)}

StatsInit ==
  /\ EngineIdle
  /\ variant \in Variants
  /\ \E ps \in SeqUpTo(StatTrades, MaxStatTrades), curve \in StatCurves :
       call = [op |-> "calculateStatistics", status |-> "called",
               positions |-> ps, equity_curve |-> curve, stats |-> NoResult]

\* calculateStatistics(positions, initialBalance, finalBalance, equityCurve)
StatsReturn ==
  /\ call.op = "calculateStatistics"
  /\ call.status = "called"
  /\ call' = [call EXCEPT
                !.status = "returned",
                !.stats = calculateStatistics(call.positions, InitialBalance,
                                              call.equity_curve, variant)]
  /\ UNCHANGED engineVars

StatsNext == StatsReturn

StatsSpec == StatsInit /\ [][StatsNext]_vars

\* ------------------------------------------------------------ risk manager

\* The requests: risk percentages 0% to 3% in steps of 0.5%, an entry at
\* 150 with stops below, at and above it, and targets giving risk-reward
\* ratios on both sides of 1 and of 4.
RiskBalances == {100000}
RiskPercentages == 0..6
RiskEntries == {150}
RiskStops == {143, 145, 150, 155}
RiskTargets == {130, 150, 152, 155, 160, 170, 175}

RiskParams ==
  [accountBalance : RiskBalances, riskPercentage : RiskPercentages,
   entry_price : RiskEntries, stop_loss : RiskStops,
   take_profit : RiskTargets]

\* Open positions: a long and a short entered at 150, the price now below,
\* at and above the entry, carrying 1%, 2% or 3% of risk.
PositionLevels == {<<150, 145, 165>>, <<150, 155, 135>>}
CurrentPrices == {145, 150, 155}
OpenRisks == {2, 4, 6}

RiskPositions ==
  {[entry_price |-> l[1], stop_loss |-> l[2], take_profit |-> l[3],
    current_price |-> c, risk_percentage |-> r] :
     l \in PositionLevels, c \in CurrentPrices, r \in OpenRisks}

\* The positions validateNewPosition is given: it reads their risk only.
GivenPositions ==
  {q \in RiskPositions :
     q.current_price = 155 /\ q.stop_loss = 145}

NewStops == {130, 142, 145, 148, 150, 154, 158, 170}

RiskInit ==
  /\ EngineIdle
  /\ variant = "batch"
  /\ \/ \E params \in RiskParams :
          call = [op |-> "calculatePositionSize", status |-> "called",
                  params |-> params, ret |-> NoResult]
     \/ \E params \in RiskParams,
           open \in SeqUpTo(GivenPositions, MaxOpenGiven) :
          call = [op |-> "validateNewPosition", status |-> "called",
                  params |-> params, openPositions |-> open,
                  ret |-> NoResult]
     \/ \E position \in RiskPositions, newStopLoss \in NewStops :
          call = [op |-> "validateStopLossModification", status |-> "called",
                  position |-> position, newStopLoss |-> newStopLoss,
                  ret |-> NoResult]

CalculatePositionSize ==
  /\ call.op = "calculatePositionSize"
  /\ call.status = "called"
  /\ call' = [call EXCEPT !.status = "returned",
                          !.ret = calculatePositionSize(call.params)]
  /\ UNCHANGED engineVars

ValidateNewPosition ==
  /\ call.op = "validateNewPosition"
  /\ call.status = "called"
  /\ call' = [call EXCEPT
                !.status = "returned",
                !.ret = validateNewPosition(call.params, call.openPositions)]
  /\ UNCHANGED engineVars

ValidateStopLossModification ==
  /\ call.op = "validateStopLossModification"
  /\ call.status = "called"
  /\ call' = [call EXCEPT
                !.status = "returned",
                !.ret = validateStopLossModification(call.position,
                                                     call.newStopLoss)]
  /\ UNCHANGED engineVars

RiskNext ==
  \/ CalculatePositionSize
  \/ ValidateNewPosition
  \/ ValidateStopLossModification

RiskSpec == RiskInit /\ [][RiskNext]_vars

\* -------------------------------------------------------- position manager

\* PositionManagementService.MINIMUM_CONFIDENCE
MINIMUM_CONFIDENCE == 70

\* Math.max(...xs) and Math.min(...xs): -Infinity and Infinity of no number.
MathMax(xs) ==
  IF xs = {} THEN MinusInfinity
  ELSE Num(CHOOSE x \in xs : \A y \in xs : y <= x)

MathMin(xs) ==
  IF xs = {} THEN Infinity
  ELSE Num(CHOOSE x \in xs : \A y \in xs : x <= y)

\* x < 0.5 for a JavaScript number x.
LessThanHalf(x) ==
  IF x.kind = "finite" THEN 2 * x.num < x.den ELSE x.kind = "-Infinity"

\* checkCloseSignals with the risk-reward limit at 1.
checkCloseSignalsBelowOne(position, levels) ==
  LET currentPrice == position.current_price
      currentRR == Divide(Abs(currentPrice - position.entry_price),
                          Abs(position.stop_loss - position.entry_price))
  IN  IF LessThan(currentRR, 1)
      THEN [shouldClose |-> TRUE,
            reason |-> "Risk-reward ratio deteriorated"]
      ELSE [shouldClose |-> FALSE]

\* checkCloseSignals.  The levels are sets: the code filters them and takes
\* the maximum or the minimum.  The reasons are the messages without the
\* numbers their templates insert.
checkCloseSignals(position, levels) ==
  LET currentPrice == position.current_price
      isLong == position.entry_price < currentPrice
      nearestSupport ==
        MathMax({level \in levels.support : level < currentPrice})
      nearestResistance ==
        MathMin({level \in levels.resistance : level > currentPrice})
      currentRR == Divide(Abs(currentPrice - position.entry_price),
                          Abs(position.stop_loss - position.entry_price))
  IN  IF isLong /\ GreaterThan(nearestSupport, currentPrice)
      THEN [shouldClose |-> TRUE,
            reason |-> "Price breached key support level"]
      ELSE IF ~isLong /\ LessThan(nearestResistance, currentPrice)
      THEN [shouldClose |-> TRUE,
            reason |-> "Price breached key resistance level"]
      ELSE IF LessThanHalf(currentRR)
      THEN [shouldClose |-> TRUE,
            reason |-> "Risk-reward ratio deteriorated"]
      ELSE [shouldClose |-> FALSE]

\* calculateStopLossConfidence.  The points for the price movement and for
\* the improvement of the stop are quotients over entry_price * stop_loss;
\* volumePoints is what the volume of the last six bars adds: 30, 15 or 0.
calculateStopLossConfidence(position, newStopLoss, volumePoints) ==
  LET e == position.entry_price
      st == position.stop_loss
      movement1000 == 1000 * Abs(position.current_price - e) * st
      improvement1000 == 1000 * Abs(newStopLoss - st) * e
      total ==
        (IF movement1000 < 40 * e * st THEN movement1000 ELSE 40 * e * st)
        + (IF improvement1000 < 30 * e * st THEN improvement1000
           ELSE 30 * e * st)
        + volumePoints * e * st
      confidence == Divide(total, e * st)
  IN  IF GreaterThan(confidence, 100) THEN Num(100) ELSE confidence

NoAdjustment == [emitted |-> FALSE]

\* calculateStopLossAdjustment.  recent holds the lows and the highs of
\* bars.slice(-10).
calculateStopLossAdjustment(position, recent, volumePoints) ==
  LET currentPrice == position.current_price
      isLong == position.entry_price < currentPrice
      potentialStop ==
        IF isLong
        THEN MathMax({low \in recent.lows : low < currentPrice})
        ELSE MathMin({high \in recent.highs : high > currentPrice})
      found ==
        IF isLong THEN GreaterThan(potentialStop, position.stop_loss)
        ELSE LessThan(potentialStop, position.stop_loss)
      newStopLoss == IF found THEN potentialStop.num ELSE position.stop_loss
      confidence ==
        IF found
        THEN calculateStopLossConfidence(position, newStopLoss, volumePoints)
        ELSE Num(0)
  IN  IF ~LessThan(confidence, MINIMUM_CONFIDENCE)
         /\ newStopLoss # position.stop_loss
      THEN [emitted |-> TRUE,
            newStopLoss |-> newStopLoss,
            reason |-> IF isLong THEN "Higher swing low formed"
                       ELSE "Lower swing high formed",
            confidence |-> confidence]
      ELSE NoAdjustment

\* validateTakeProfitLevel: Infinity and -Infinity are truthy, and the
\* minimum with Infinity (the maximum with -Infinity) is the target.
validateTakeProfitLevel(targetPrice, isLong, levels) ==
  LET nearestResistance ==
        MathMin({level \in levels.resistance : level > targetPrice})
      nearestSupport ==
        MathMax({level \in levels.support : level < targetPrice})
  IN  IF isLong
      THEN IF nearestResistance.kind = "finite"
              /\ nearestResistance.num # 0
              /\ 995 * nearestResistance.num < 1000 * targetPrice
           THEN Divide(995 * nearestResistance.num, 1000)
           ELSE Num(targetPrice)
      ELSE IF nearestSupport.kind = "finite"
              /\ nearestSupport.num # 0
              /\ 1005 * nearestSupport.num > 1000 * targetPrice
           THEN Divide(1005 * nearestSupport.num, 1000)
           ELSE Num(targetPrice)

\* calculateTakeProfitLevels that leaves the last level out.
calculateTakeProfitLevelsTwo(position, levels) ==
  LET isLong == position.entry_price < position.current_price
      riskAmount == Abs(position.entry_price - position.stop_loss)
      target(multiple) ==
        IF isLong THEN position.entry_price + riskAmount * multiple
        ELSE position.entry_price - riskAmount * multiple
  IN  <<[price |-> validateTakeProfitLevel(target(1), isLong, levels),
         size |-> 40, riskMultiple |-> 1],
        [price |-> validateTakeProfitLevel(target(2), isLong, levels),
         size |-> 30, riskMultiple |-> 2]>>

\* calculateTakeProfitLevels: the risk multiples 1, 2, 3; the sizes 40, 30
\* and what remains of 100.
calculateTakeProfitLevels(position, levels) ==
  LET isLong == position.entry_price < position.current_price
      riskAmount == Abs(position.entry_price - position.stop_loss)
      target(multiple) ==
        IF isLong THEN position.entry_price + riskAmount * multiple
        ELSE position.entry_price - riskAmount * multiple
      firstSize == 40
      secondSize == 30
      lastSize == 100 - firstSize - secondSize
  IN  <<[price |-> validateTakeProfitLevel(target(1), isLong, levels),
         size |-> firstSize, riskMultiple |-> 1],
        [price |-> validateTakeProfitLevel(target(2), isLong, levels),
         size |-> secondSize, riskMultiple |-> 2],
        [price |-> validateTakeProfitLevel(target(3), isLong, levels),
         size |-> lastSize, riskMultiple |-> 3]>>

\* analyzePosition, after findKeyLevels
analyzePosition(position, recent, levels, volumePoints) ==
  LET closeSignal == checkCloseSignals(position, levels)
  IN  IF closeSignal.shouldClose
      THEN [shouldClose |-> TRUE, closeReason |-> closeSignal.reason]
      ELSE [shouldClose |-> FALSE,
            stopLoss |->
              calculateStopLossAdjustment(position, recent, volumePoints),
            takeProfit |-> calculateTakeProfitLevels(position, levels)]

\* The positions analyzePosition is given: the long and the short of
\* PositionLevels with the price from below the long's stop to far above
\* its target.
ManagedPrices == {140, 146, 148, 150, 152, 155, 175}

ManagedPositions ==
  {[entry_price |-> l[1], stop_loss |-> l[2], take_profit |-> l[3],
    current_price |-> c, risk_percentage |-> 2] :
     l \in PositionLevels, c \in ManagedPrices}

\* What findKeyLevels can return: support and resistance levels on both
\* sides of the entry.
SupportLevels == {142, 147}
ResistanceLevels == {153, 158}

KeyLevels ==
  [support : SUBSET SupportLevels, resistance : SUBSET ResistanceLevels]

\* The lows and the highs of bars.slice(-10), and what the volume of the
\* last six bars adds to the confidence.
RecentLows == {144, 154, 170}
RecentHighs == {142, 156}

RecentBars == [lows : SUBSET RecentLows, highs : SUBSET RecentHighs]

VolumePoints == {0, 15, 30}

ManagerInit ==
  /\ EngineIdle
  /\ variant = "batch"
  /\ \E position \in ManagedPositions, levels \in KeyLevels,
        recent \in RecentBars, volumePoints \in VolumePoints :
       call = [op |-> "analyzePosition", status |-> "called",
               position |-> position, levels |-> levels, recent |-> recent,
               volumePoints |-> volumePoints, ret |-> NoResult]

AnalyzePosition ==
  /\ call.op = "analyzePosition"
  /\ call.status = "called"
  /\ call' = [call EXCEPT
                !.status = "returned",
                !.ret = analyzePosition(call.position, call.recent,
                                        call.levels, call.volumePoints)]
  /\ UNCHANGED engineVars

ManagerNext == AnalyzePosition

ManagerSpec == ManagerInit /\ [][ManagerNext]_vars

\* --------------------------------------------------------- concurrent runs

\* Two calls of runBacktest on the one BacktestingService instance.
Runs == {1, 2}

\* The initialBalance of each call.
RunBalances == <<100000, 50000>>

\* What the advisory model answers in these runs: a long, a short, a hold.
LongAnalysis ==
  [trend |-> "bullish", confidence |-> 90, mean_reversion |-> FALSE,
   recommendation |-> [action |-> "buy", entry_price |-> 100,
                       stop_loss |-> 95, take_profit |-> 115,
                       risk_percentage |-> 2]]

ShortAnalysis ==
  [trend |-> "bearish", confidence |-> 90, mean_reversion |-> FALSE,
   recommendation |-> [action |-> "sell", entry_price |-> 100,
                       stop_loss |-> 105, take_profit |-> 85,
                       risk_percentage |-> 2]]

HoldAnalysis ==
  [trend |-> "bullish", confidence |-> 90, mean_reversion |-> FALSE,
   recommendation |-> [action |-> "hold", entry_price |-> 0,
                       stop_loss |-> 0, take_profit |-> 0,
                       risk_percentage |-> 0]]

\* A bar of a run's series with the answer of the advisory model at it: a
\* falling bar with a long, a rising bar with a short, a flat bar with a
\* hold.  A falling bar stops a long out and takes a short's profit, a
\* rising bar does the opposite.
RunBars ==
  {[shape |-> [low |-> 85, high |-> 100, close |-> 100],
    analysis |-> LongAnalysis],
   [shape |-> [low |-> 100, high |-> 116, close |-> 116],
    analysis |-> ShortAnalysis],
   [shape |-> [low |-> 100, high |-> 100, close |-> 100],
    analysis |-> HoldAnalysis]}

\* The series a run processes.
RunScripts == [1..MaxRunBars -> RunBars]

\* bars[i] of a run
barAt(script, i) ==
  [timestamp |-> i, low |-> script[i].shape.low,
   high |-> script[i].shape.high, close |-> script[i].shape.close]

\* The positions, the balance and the equity curve as fields of the
\* instance, which every call works on.
contextOfInstance(run) == 1

\* The positions, the balance and the equity curve a call works on: the
\* const and let of its own invocation of runBacktest.
contextOf(run) == run

NoContext == [positions |-> <<>>, balance |-> 0, equityCurve |-> <<>>]

\* const positions = [], const equityCurve = [...], let balance
NewContext(initialBalance, version) ==
  [positions |-> <<>>,
   balance |-> initialBalance,
   equityCurve |-> IF version = "db"
                   THEN <<[timestamp |-> 0, balance |-> initialBalance]>>
                   ELSE <<>>]

NewRun == [pc |-> "init", i |-> 0, k |-> 1, result |-> NoResult]

\* updateOpenPositions, as a whole
updateOpenPositions(ps, currentBar) ==
  filterOpen([j \in 1..Len(ps) |->
                checkTakeProfit(checkStopLoss(ps[j], currentBar), currentBar)])

\* The try block on a context: the analysis and the trade it leads to (an
\* answer validateAnalysis rejects throws, and the catch block goes on).
analyzeAndExecute(context, analysis, currentBar) ==
  LET position == executePosition(analysis, currentBar, context.balance)
  IN  IF /\ validateAnalysis(analysis)
         /\ shouldExecute(context.positions, analysis)
         /\ position.ok
      THEN [context EXCEPT
              !.positions =
                Append(@, [f \in DOMAIN position \ {"ok"} |-> position[f]])]
      ELSE context

\* "Update equity curve" on a context
updateEquityCurve(context, currentBar) ==
  LET current == calculateCurrentBalance(context.balance, context.positions)
  IN  [context EXCEPT
         !.balance = current,
         !.equityCurve =
           Append(@, [timestamp |-> currentBar.timestamp,
                      balance |-> current])]

\* After the loop: closeAllPositions, calculateStatistics, the result.
backtestResult(context, lastBar, initialBalance, version) ==
  LET closed == closeAllPositions(context.positions, lastBar)
      stats == calculateStatistics(closed, initialBalance,
                                   context.equityCurve, version)
  IN  [assembled |-> TRUE,
       initial_balance |-> initialBalance,
       final_balance |-> context.balance,
       total_trades |-> stats.total_trades,
       winning_trades |-> stats.winning_trades,
       losing_trades |-> stats.losing_trades,
       win_rate |-> stats.win_rate,
       profit_factor |-> stats.profit_factor,
       max_drawdown |-> stats.max_drawdown,
       max_drawdown_percentage |-> stats.max_drawdown_percentage,
       trades |-> closed,
       equity_curve |-> context.equityCurve]

\* The loop of a call that runs alone, from bar i + 1 to bar last.
RECURSIVE loopAlone(_, _, _, _)
loopAlone(context, script, i, last) ==
  IF i >= last
  THEN context
  ELSE LET currentBar == barAt(script, i + 1)
           updated == [context EXCEPT
                         !.positions = updateOpenPositions(@, currentBar)]
           analyzed == analyzeAndExecute(updated, script[i + 1].analysis,
                                         currentBar)
       IN  loopAlone(updateEquityCurve(analyzed, currentBar), script, i + 1,
                     last)

\* The result of a call that runs alone.
runAlone(script, initialBalance, version) ==
  backtestResult(loopAlone(NewContext(initialBalance, version), script, 0,
                           Len(script)),
                 barAt(script, Len(script)), initialBalance, version)

\* Both calls have been made and neither has run yet; each is given a
\* window the provider has enough bars for.
RunsInit ==
  /\ EngineIdle
  /\ variant \in Variants
  /\ \E scripts \in [Runs -> RunScripts] :
       call = [op |-> "runBacktest",
               scripts |-> scripts,
               runs |-> [r \in Runs |-> NewRun],
               contexts |-> [r \in Runs |-> NoContext],
               overlapped |-> FALSE]

\* The other call is between its first and its last step.
otherMidRun(r) ==
  \E o \in Runs \ {r} : call.runs[o].pc \notin {"init", "done", "failed"}

\* A step of call r: it goes on at run and leaves context behind.
RunStep(r, run, context) ==
  /\ call' = [call EXCEPT
                !.runs[r] = run,
                !.contexts[contextOf(r)] = context,
                !.overlapped = @ \/ otherMidRun(r)]
  /\ UNCHANGED engineVars

\* runBacktest up to the loop
RunStart(r) ==
  /\ call.runs[r].pc = "init"
  /\ RunStep(r, [call.runs[r] EXCEPT !.pc = "loop"],
             NewContext(RunBalances[r], variant))

\* The loop head: the next bar, if the series has one.
RunNextBar(r) ==
  /\ call.runs[r].pc = "loop"
  /\ call.runs[r].i < Len(call.scripts[r])
  /\ RunStep(r, [call.runs[r] EXCEPT !.pc = "check_sl", !.i = @ + 1],
             call.contexts[contextOf(r)])

\* updateOpenPositions: the stop-loss check of positions[k]
RunCheckStopLoss(r) ==
  LET run == call.runs[r]
      context == call.contexts[contextOf(r)]
  IN  /\ run.pc = "check_sl"
      /\ run.k <= Len(context.positions)
      /\ RunStep(r, [run EXCEPT !.pc = "check_tp"],
                 [context EXCEPT
                    !.positions[run.k] =
                      checkStopLoss(@, barAt(call.scripts[r], run.i))])

\* updateOpenPositions: the take-profit check of positions[k], if the array
\* still holds it
RunCheckTakeProfit(r) ==
  LET run == call.runs[r]
      context == call.contexts[contextOf(r)]
  IN  /\ run.pc = "check_tp"
      /\ RunStep(r, [run EXCEPT !.pc = "check_sl", !.k = @ + 1],
                 IF run.k <= Len(context.positions)
                 THEN [context EXCEPT
                         !.positions[run.k] =
                           checkTakeProfit(@, barAt(call.scripts[r], run.i))]
                 ELSE context)

\* updateOpenPositions: "Remove closed positions"
RunRemoveClosed(r) ==
  LET run == call.runs[r]
      context == call.contexts[contextOf(r)]
  IN  /\ run.pc = "check_sl"
      /\ run.k > Len(context.positions)
      /\ RunStep(r, [run EXCEPT !.pc = "analyze", !.k = 1],
                 [context EXCEPT !.positions = filterOpen(@)])

\* The try block: chart, analysis, and the trade it leads to.
RunAnalyze(r) ==
  LET run == call.runs[r]
  IN  /\ run.pc = "analyze"
      /\ RunStep(r, [run EXCEPT !.pc = "equity"],
                 analyzeAndExecute(call.contexts[contextOf(r)],
                                   call.scripts[r][run.i].analysis,
                                   barAt(call.scripts[r], run.i)))

\* "Update equity curve"
RunUpdateEquity(r) ==
  LET run == call.runs[r]
  IN  /\ run.pc = "equity"
      /\ RunStep(r, [run EXCEPT !.pc = "loop"],
                 updateEquityCurve(call.contexts[contextOf(r)],
                                   barAt(call.scripts[r], run.i)))

\* After the loop: closeAllPositions, calculateStatistics, the result.
RunFinalize(r) ==
  LET run == call.runs[r]
      context == call.contexts[contextOf(r)]
  IN  /\ run.pc = "loop"
      /\ run.i = Len(call.scripts[r])
      /\ \E assembled \in {backtestResult(context,
                                          barAt(call.scripts[r], run.i),
                                          RunBalances[r], variant)} :
           RunStep(r, [run EXCEPT
                         !.pc = IF variant = "db" THEN "persist" ELSE "done",
                         !.result = assembled],
                   [context EXCEPT !.positions = assembled.trades])

\* "db" only: the result is stored, and returned if the store succeeds.
RunPersist(r) ==
  /\ call.runs[r].pc = "persist"
  /\ \E stored \in BOOLEAN :
       RunStep(r, [call.runs[r] EXCEPT
                     !.pc = IF stored THEN "done" ELSE "failed"],
               call.contexts[contextOf(r)])

\* The event loop resumes either call at each of its awaits.
RunsNext ==
  \E r \in Runs :
    \/ RunStart(r)
    \/ RunNextBar(r)
    \/ RunCheckStopLoss(r)
    \/ RunCheckTakeProfit(r)
    \/ RunRemoveClosed(r)
    \/ RunAnalyze(r)
    \/ RunUpdateEquity(r)
    \/ RunFinalize(r)
    \/ RunPersist(r)

RunsSpec == RunsInit /\ [][RunsNext]_vars

\* ------------------------------------------------------------------ claims

\* The bar triggers the stop-loss / the take-profit of a position.
stopLossTriggered(position, currentBar) ==
  \/ position.side = "long" /\ currentBar.low <= position.stop_loss
  \/ position.side = "short" /\ currentBar.high >= position.stop_loss

takeProfitTriggered(position, currentBar) ==
  \/ position.side = "long" /\ currentBar.high >= position.take_profit
  \/ position.side = "short" /\ currentBar.low <= position.take_profit

\* The positions whose exit checks of the current bar are over.
Checked == IF pc = "check_sl" THEN 1..(k - 1) ELSE {}

\* The pnl the side and the exit price of a closed trade call for.
expectedPnl(t) ==
  IF t.side = "long"
  THEN (t.exit_price - t.entry_price) * t.size
  ELSE (t.entry_price - t.exit_price) * t.size

\* C1: after every simulated bar the balance appended to the equity curve
\* for that bar is the initial balance plus the pnl of all trades closed at
\* or before the bar (every such trade has left the positions array).
C1_EquityIsInitialPlusRealized ==
  (pc = "loop" /\ bar.timestamp >= 1) =>
    /\ equityCurve[Len(equityCurve)].timestamp = bar.timestamp
    /\ equityCurve[Len(equityCurve)].balance = InitialBalance + realizedPnl

\* C2: a position whose stop-loss and take-profit are both triggered by the
\* bar ends the bar's exit check closed at stop_loss with reason stop_loss.
C2_StopLossWinsTie ==
  \A j \in Checked :
    (stopLossTriggered(positions[j], bar) /\ takeProfitTriggered(positions[j], bar))
      => /\ positions[j].reason = "stop_loss"
         /\ positions[j].exit_price = positions[j].stop_loss

\* C3: the engine's set of open positions never holds more than 3 positions.
C3_AtMostThreeOpen ==
  Len(filterOpen(positions)) <= 3

C3_Witness ==
  /\ pc = "analyze"
  /\ Len(filterOpen(positions)) = 3
  /\ \E analysis \in RawAnalyses :
       /\ validateAnalysis(analysis)
       /\ analysis.recommendation.action # "hold"
       /\ analysis.confidence >= 75

\* C4: every position opened at a bar comes from a recommendation that is not
\* hold and has confidence >= 75, and has the size calculatePositionSize
\* returns for the recommendation's risk percentage (1% when it names none).
C4_OpenedAsRiskManagerSizes ==
  lastOpen.opened =>
    LET rec == lastOpen.recommendation
        sized == calculatePositionSize(
                   [accountBalance |-> lastOpen.balance,
                    riskPercentage |-> IF rec.risk_percentage # 0
                                       THEN rec.risk_percentage ELSE 2,
                    entry_price |-> rec.entry_price,
                    stop_loss |-> rec.stop_loss,
                    take_profit |-> rec.take_profit])
    IN  /\ rec.action # "hold"
        /\ lastOpen.confidence >= 75
        /\ sized.error = "none"
        /\ positions[Len(positions)].size = sized.size

\* C5: every trade the engine creates is ordered by its side: a long has
\* stop_loss < entry_price < take_profit, a short the reverse.
C5_TradeLevelsOrdered ==
  \A j \in 1..Len(positions) :
    IF positions[j].side = "long"
    THEN /\ positions[j].stop_loss < positions[j].entry_price
         /\ positions[j].entry_price < positions[j].take_profit
    ELSE /\ positions[j].take_profit < positions[j].entry_price
         /\ positions[j].entry_price < positions[j].stop_loss

\* C6: when the loop ends, every position still open is closed at the last
\* bar's close with reason end_of_backtest before the statistics are computed:
\* every trade of the result has exit_time, exit_price and pnl set, and the
\* statistics count the force-closed trades.
C6_FinalizeClosesAll ==
  [][(pc = "loop" /\ pc' \in {"persist", "done"}) =>
       /\ result'.assembled
       /\ Len(result'.trades) = Len(positions)
       /\ \A j \in 1..Len(positions) :
            LET t == result'.trades[j]
            IN  /\ positions[j].exit_time = 0
                /\ t.exit_time = bar.timestamp
                /\ t.exit_time # 0
                /\ t.exit_price = bar.close
                /\ t.reason = "end_of_backtest"
                /\ t.pnl = expectedPnl(t)
                /\ t.side = positions[j].side
                /\ t.entry_price = positions[j].entry_price
                /\ t.size = positions[j].size
       /\ result'.total_trades = Len(positions)
       /\ result'.winning_trades + result'.losing_trades = Len(positions)]_vars

C6_Witness ==
  /\ result.assembled
  /\ closedCount >= 1
  /\ Len(result.trades) = 1
  /\ result.trades[1].reason = "end_of_backtest"
  /\ result.trades[1].exit_price = 116
  /\ result.trades[1].pnl # 0
  /\ result.total_trades = 1

\* No position of the array is still open although the bar triggers one of
\* its exits.
exitChecksApplied ==
  \A j \in 1..Len(positions) :
    ~(positions[j].exit_time = 0
      /\ (stopLossTriggered(positions[j], bar)
          \/ takeProfitTriggered(positions[j], bar)))

C8_ClosedTradeImmutable ==
  [][Len(positions') = Len(positions) =>
       \A j \in 1..Len(positions) :
         positions[j].exit_time # 0 =>
           /\ positions'[j].exit_time = positions[j].exit_time
           /\ positions'[j].exit_price = positions[j].exit_price
           /\ positions'[j].pnl = positions[j].pnl
           /\ positions'[j].reason = positions[j].reason]_vars

\* C9: every closed trade has the pnl its side and exit price call for; a
\* position whose take-profit alone is triggered is closed at take_profit, and
\* the long 100 / 95 / 115 of size 200 meeting a high of 116 makes 3000.
C9_PnlConsistent ==
  /\ \A j \in 1..Len(positions) :
       positions[j].exit_time # 0 => positions[j].pnl = expectedPnl(positions[j])
  /\ \A j \in Checked :
       (takeProfitTriggered(positions[j], bar)
        /\ ~stopLossTriggered(positions[j], bar)) =>
         /\ positions[j].exit_price = positions[j].take_profit
         /\ positions[j].reason = "take_profit"
         /\ positions[j].exit_time = bar.timestamp
  /\ \A j \in Checked :
       (/\ positions[j].side = "long"
        /\ positions[j].entry_price = 100
        /\ positions[j].stop_loss = 95
        /\ positions[j].take_profit = 115
        /\ positions[j].size = 200
        /\ bar.high = 116
        /\ bar.low > 95) =>
         /\ positions[j].exit_price = 115
         /\ positions[j].reason = "take_profit"
         /\ positions[j].pnl = 3000

C9_Witness ==
  \E j \in Checked :
    /\ positions[j].side = "long"
    /\ positions[j].entry_price = 100
    /\ positions[j].stop_loss = 95
    /\ positions[j].take_profit = 115
    /\ positions[j].size = 200
    /\ bar.high = 116
    /\ bar.low > 95
    /\ positions[j].pnl = 3000

\* C10: a run whose start date is not strictly before its end date fails in
\* initialization: no bar is processed and nothing is produced.
C10_BadDatesAbort ==
  (startDate >= endDate) =>
    /\ pc \in {"init", "failed"}
    /\ equityCurve = <<>>
    /\ positions = <<>>
    /\ ~result.assembled

\* How often makeRequest has called sendRequest.
attempts == Len(call.delays) + (IF call.status = "waiting" THEN 0 ELSE 1)

\* C11: a failing advisory request is retried at most 3 times after the
\* first attempt, each delay twice the one before; when the last attempt
\* fails too, the error reaches the engine, which skips the bar (no position
\* opened, the loop goes on); the request never retries forever.
C11_BoundedExponentialRetry ==
  /\ [](call.op = "makeRequest" =>
          /\ Len(call.delays) <= 3
          /\ attempts <= 4
          /\ \A j \in 2..Len(call.delays) :
               call.delays[j] = 2 * call.delays[j - 1]
          /\ (call.status = "thrown" =>
                /\ call.retries = 0
                /\ Len(call.delays) = 3
                /\ call.error \in RequestErrors))
  /\ [][(call.op = "makeRequest" /\ call.status = "thrown" /\ pc = "analyze") =>
          /\ pc' = "equity"
          /\ analysisFailed'
          /\ positions' = positions]_vars
  /\ ((call.op = "makeRequest" /\ call.status = "sending")
        ~> (call.status \in {"returned", "thrown"}))
  /\ ((call.op = "makeRequest" /\ call.status = "thrown")
        ~> (pc = "loop" /\ positions = <<>>
            /\ equityCurve[Len(equityCurve)].timestamp = bar.timestamp))

C11_Witness ==
  /\ call.op = "makeRequest"
  /\ call.status = "thrown"
  /\ call.delays = <<2000, 4000, 8000>>
  /\ pc = "loop"
  /\ positions = <<>>

\* C12: the hand-over of the result to the sink is fire-and-forget: once the
\* simulation has assembled the result, a failure to store it does not make
\* the run fail; the run still returns the result.
C12_PersistFailureStillReturns ==
  result.assembled => pc \in {"persist", "done"}

\* The statistics a finished call of calculateStatistics returned.
statsReturned == call.op = "calculateStatistics" /\ call.status = "returned"

\* A number that is neither NaN nor infinite, and its comparison with an
\* integer.
IsFinite(x) == x.kind = "finite"
IsZero(x) == x.kind = "finite" /\ x.num = 0

\* C13: the statistics never divide by zero: win_rate is 0 when there is no
\* closed trade, average_win and average_loss are 0 when their set is
\* empty, and profit_factor is the +infinity sentinel (not total_wins, not
\* NaN) when total_losses is 0 and total_wins > 0.
C13_StatisticsNeverDivideByZero ==
  statsReturned =>
    LET st == call.stats
        totalWins == sumPnlWhere(call.positions, TRUE)
        totalLosses == Abs(sumPnlWhere(call.positions, FALSE))
    IN  /\ st.win_rate.kind # "NaN"
        /\ (st.total_trades = 0 => IsZero(st.win_rate))
        /\ (st.winning_trades = 0 => IsZero(st.average_win))
        /\ (st.losing_trades = 0 => IsZero(st.average_loss))
        /\ st.profit_factor.kind # "NaN"
        /\ ((totalLosses = 0 /\ totalWins > 0) =>
              st.profit_factor = Infinity)

\* No point of the curve is below the point before it.
nonDecreasing(curve) ==
  \A j \in 2..Len(curve) : curve[j].balance >= curve[j - 1].balance

\* C14: for every equity curve calculateStatistics can be given (it starts
\* at the initial balance and no balance is negative), max_drawdown_percentage
\* is a number in [0, 100], and it is 0, as max_drawdown is, when the curve
\* is non-decreasing.
C14_DrawdownPercentageInRange ==
  statsReturned =>
    LET st == call.stats
        pct == call.stats.max_drawdown_percentage
    IN  /\ IsFinite(pct)
        /\ pct.num >= 0
        /\ pct.num <= 100 * pct.den
        /\ st.max_drawdown >= 0
        /\ (nonDecreasing(call.equity_curve) =>
              (st.max_drawdown = 0 /\ IsZero(pct)))
        /\ (st.max_drawdown > 0 => pct.num > 0)

C14_Witness ==
  /\ statsReturned
  /\ Len(call.equity_curve) = 3
  /\ call.equity_curve[2].balance = 110000
  /\ call.equity_curve[3].balance = 0
  /\ call.stats.max_drawdown = 110000
  /\ call.stats.max_drawdown_percentage.num
       = 100 * call.stats.max_drawdown_percentage.den

\* A call of the risk manager that has returned.
returned(op) == call.op = op /\ call.status = "returned"

\* C15: calculatePositionSize returns size = floor((balance x
\* risk_percentage / 100) / |entry - stop|), with risk_amount <=
\* max_risk_amount, exactly when 0.5 <= risk_percentage <= 2.0 and stop_loss
\* differs from entry_price (balance 100000, risk 1%, entry 150, stop 145:
\* size 200, risk_amount 1000); otherwise it fails with the invalid risk
\* percentage or the invalid stop loss error and returns no size.
C15_PositionSizeContract ==
  returned("calculatePositionSize") =>
    LET p == call.params
        r == call.ret
        inRange == p.riskPercentage >= 1 /\ p.riskPercentage <= 4
        perShare == Abs(p.entry_price - p.stop_loss)
    IN  /\ (r.error = "none") <=> (inRange /\ p.stop_loss # p.entry_price)
        /\ (r.error = "none") =>
             /\ r.size * 200 * perShare <= p.accountBalance * p.riskPercentage
             /\ (r.size + 1) * 200 * perShare
                  > p.accountBalance * p.riskPercentage
             /\ r.riskAmount200 = p.accountBalance * p.riskPercentage
             /\ r.riskAmount200 <= r.maxRiskAmount200
        /\ (r.error # "none") =>
             /\ DOMAIN r = {"error"}
             /\ r.error = IF ~inRange THEN "Invalid risk percentage"
                          ELSE "Invalid stop loss"
        /\ (p.accountBalance = 100000 /\ p.riskPercentage = 2
            /\ p.entry_price = 150 /\ p.stop_loss = 145) =>
             (r.error = "none" /\ r.size = 200 /\ r.riskAmount200 = 200 * 1000)

C15_Witness ==
  /\ returned("calculatePositionSize")
  /\ call.params.accountBalance = 100000
  /\ call.params.riskPercentage = 2
  /\ call.params.entry_price = 150
  /\ call.params.stop_loss = 145
  /\ call.ret.size = 200
  /\ call.ret.riskAmount200 = 200000

\* C16: validateNewPosition called with 3 (or more) open positions returns
\* invalid with the reason "Maximum number of positions ...", whatever the
\* risk parameters of the request are.
C16_MaxPositionsRejected ==
  (returned("validateNewPosition") /\ Len(call.openPositions) >= 3) =>
    /\ ~call.ret.isValid
    /\ call.ret.reason = "Maximum number of positions (3) reached"

C16_Witness ==
  /\ returned("validateNewPosition")
  /\ Len(call.openPositions) = 3
  /\ \A j \in 1..3 : call.openPositions[j].risk_percentage = 2
  /\ call.params.riskPercentage = 2
  /\ call.params.stop_loss = 145
  /\ call.params.take_profit = 160
  /\ ~call.ret.isValid

\* The total risk validateNewPosition compares with the limit, in
\* half-percent units.
requestedTotalRisk ==
  calculateTotalRisk(call.openPositions) + call.params.riskPercentage

\* C17: for every combination of open positions and requested risk
\* percentage, validateNewPosition rejects the request when the sum of the
\* open positions' risk percentages and the requested one exceeds 6.0.
C17_TotalRiskAboveLimitRejected ==
  (returned("validateNewPosition") /\ requestedTotalRisk > 12) =>
    ~call.ret.isValid

C17_Witness ==
  /\ returned("validateNewPosition")
  /\ Len(call.openPositions) = 2
  /\ requestedTotalRisk = 13
  /\ call.params.riskPercentage = 1
  /\ call.params.stop_loss = 145
  /\ call.params.take_profit = 160
  /\ call.ret.reason = "Total risk would exceed maximum 6%"

\* C18: validateNewPosition rejects, with the reason "... exceed maximum
\* ...", a request that brings the total risk up to the 6% limit: two open
\* positions at 2% each and a request of 2%.
C18_TotalRiskAtLimitRejected ==
  (/\ returned("validateNewPosition")
   /\ Len(call.openPositions) = 2
   /\ \A j \in 1..2 : call.openPositions[j].risk_percentage = 4
   /\ call.params.riskPercentage = 4
   /\ call.params.stop_loss = 145
   /\ call.params.take_profit = 160) =>
    /\ ~call.ret.isValid
    /\ call.ret.reason = "Total risk would exceed maximum 6%"

\* The request passes validateNewPosition's checks of the number of
\* positions, of the risk percentage and of the total risk.
passesPortfolioChecks ==
  /\ Len(call.openPositions) < 3
  /\ call.params.riskPercentage >= 1
  /\ call.params.riskPercentage <= 4
  /\ requestedTotalRisk <= 12

\* C19: validateNewPosition rejects every request whose risk-reward ratio
\* |take_profit - entry| / |entry - stop| is below 1.0 or above 4.0 (a zero
\* risk with a reward is an infinite ratio), and accepts a request that
\* passes the other checks when the ratio is within [1.0, 4.0].
C19_RiskRewardWindow ==
  returned("validateNewPosition") =>
    LET risk == Abs(call.params.entry_price - call.params.stop_loss)
        reward == Abs(call.params.take_profit - call.params.entry_price)
        below == risk > 0 /\ reward < risk
        above == (risk > 0 /\ reward > 4 * risk) \/ (risk = 0 /\ reward > 0)
        within == risk > 0 /\ reward >= risk /\ reward <= 4 * risk
    IN  /\ (below \/ above) => ~call.ret.isValid
        /\ (passesPortfolioChecks /\ below) =>
             call.ret.reason = "Risk-reward ratio below minimum 1.0"
        /\ (passesPortfolioChecks /\ above) =>
             call.ret.reason = "Risk-reward ratio above maximum 4.0"
        /\ (passesPortfolioChecks /\ within) => call.ret.isValid

C19_Witness ==
  /\ returned("validateNewPosition")
  /\ passesPortfolioChecks
  /\ Len(call.openPositions) = 2
  /\ call.params.stop_loss = 145
  /\ call.params.take_profit = 170
  /\ call.ret.isValid

\* C20: validateStopLossModification accepts only a new stop in the
\* direction of profit: above the current stop for a long position (its stop
\* is below its entry), below it for a short position; any other new stop is
\* rejected with the reason "... direction of profit".
C20_StopMovesTowardsProfit ==
  returned("validateStopLossModification") =>
    LET q == call.position
        towardsProfit ==
          IF q.stop_loss < q.entry_price
          THEN call.newStopLoss > q.stop_loss
          ELSE call.newStopLoss < q.stop_loss
    IN  /\ call.ret.isValid => towardsProfit
        /\ ~towardsProfit =>
             call.ret.reason =
               "Stop loss can only be modified in the direction of profit"

\* C21: validateStopLossModification rejects, with the reason "... risk-reward
\* ratio ...", moving the stop of a profitable long position above its entry
\* and just below the current price: entry 150, current 155, take_profit
\* 165, the stop moved from 145 to 154.
C21_StopAboveEntryRejected ==
  (/\ returned("validateStopLossModification")
   /\ call.position.entry_price = 150
   /\ call.position.current_price = 155
   /\ call.position.stop_loss = 145
   /\ call.position.take_profit = 165
   /\ call.newStopLoss = 154) =>
    /\ ~call.ret.isValid
    /\ call.ret.reason = "New risk-reward ratio would be below minimum 1.0"

\* The position is a long one: its stop is below its entry.
isLongPosition(q) == q.stop_loss < q.entry_price

\* The price has breached the technical level nearest to it against the
\* position: for a long, a support level lies above the price; for a short,
\* a resistance level lies below it.
levelBreached ==
  IF isLongPosition(call.position)
  THEN \E level \in call.levels.support : call.position.current_price < level
  ELSE \E level \in call.levels.resistance :
         call.position.current_price > level

\* C22: analyzePosition signals closure, with a reason naming the breached
\* support or resistance level, whenever the current price has breached the
\* nearest technical level against the position (a long entered at 150 with
\* its stop at 145 whose price has fallen below its support level).
C22_BreachSignalsClose ==
  (returned("analyzePosition") /\ levelBreached) =>
    /\ call.ret.shouldClose
    /\ call.ret.closeReason =
         IF isLongPosition(call.position)
         THEN "Price breached key support level"
         ELSE "Price breached key resistance level"

\* The live risk-reward ratio |current - entry| / |entry - stop| of the
\* position analyzePosition was given is below num / den.
liveRatioBelow(num, den) ==
  den * Abs(call.position.current_price - call.position.entry_price)
    < num * Abs(call.position.entry_price - call.position.stop_loss)

C24_CloseBelowOneToOne ==
  (returned("analyzePosition") /\ liveRatioBelow(1, 1)) =>
    /\ call.ret.shouldClose
    /\ call.ret.closeReason = "Risk-reward ratio deteriorated"

\* analyzePosition returned a decision that holds a stop adjustment.
adjustmentEmitted ==
  /\ returned("analyzePosition")
  /\ ~call.ret.shouldClose
  /\ call.ret.stopLoss.emitted

\* C25: every stop adjustment analyzePosition emits has a confidence of at
\* least 70, strictly improves the stop (higher for a long position, lower
\* for a short one) and is accepted by validateStopLossModification.
C25_EmittedAdjustmentIsValid ==
  adjustmentEmitted =>
    /\ ~LessThan(call.ret.stopLoss.confidence, MINIMUM_CONFIDENCE)
    /\ IF isLongPosition(call.position)
       THEN call.ret.stopLoss.newStopLoss > call.position.stop_loss
       ELSE call.ret.stopLoss.newStopLoss < call.position.stop_loss
    /\ validateStopLossModification(call.position,
                                    call.ret.stopLoss.newStopLoss).isValid

\* C26: a decision of analyzePosition that does not close holds exactly
\* three take-profit levels, at the risk multiples 1, 2 and 3 in this order,
\* of the sizes 40, 30 and 30: each above 0, 100 in sum.
C26_ThreeTakeProfitLevels ==
  (returned("analyzePosition") /\ ~call.ret.shouldClose) =>
    LET takeProfit == call.ret.takeProfit
    IN  /\ Len(takeProfit) = 3
        /\ \A i \in 1..3 : /\ takeProfit[i].riskMultiple = i
                           /\ takeProfit[i].size > 0
        /\ <<takeProfit[1].size, takeProfit[2].size, takeProfit[3].size>>
             = <<40, 30, 30>>
        /\ takeProfit[1].size + takeProfit[2].size + takeProfit[3].size = 100

\* The long position of the tests, priced at 155, is kept open with its
\* three levels at 155, 160 and 165.
C26_Witness ==
  /\ returned("analyzePosition")
  /\ ~call.ret.shouldClose
  /\ isLongPosition(call.position)
  /\ call.position.current_price = 155
  /\ Len(call.ret.takeProfit) = 3
  /\ call.ret.takeProfit[1].price = Num(155)
  /\ call.ret.takeProfit[2].price = Num(160)
  /\ call.ret.takeProfit[3].price = Num(165)

\* The call has assembled its result.
runAssembled(r) ==
  call.op = "runBacktest" /\ call.runs[r].pc \in {"persist", "done"}

\* C27: two runs of runBacktest that execute concurrently on the shared
\* instance, interleaved at every await, do not interfere: at each loop
\* head the balance, the positions and the equity curve of a run are what
\* the run alone has made of them, and the result of each run is the result
\* of running it alone.
C27_ConcurrentRunsDoNotInterfere ==
  call.op = "runBacktest" =>
    \A r \in Runs :
      /\ call.runs[r].pc = "loop" =>
           call.contexts[contextOf(r)] =
             loopAlone(NewContext(RunBalances[r], variant), call.scripts[r],
                       0, call.runs[r].i)
      /\ runAssembled(r) =>
           call.runs[r].result =
             runAlone(call.scripts[r], RunBalances[r], variant)

\* Both runs have returned results with trades in them, after steps of one
\* were taken in the middle of the other.
C27_Witness ==
  /\ call.op = "runBacktest"
  /\ call.overlapped
  /\ \A r \in Runs : /\ call.runs[r].pc = "done"
                     /\ call.runs[r].result.total_trades > 0
  /\ call.runs[1].result.trades # call.runs[2].result.trades

\* C28: the trade list of the returned result holds every position the run
\* opened, those closed earlier by stop_loss or take_profit included, and
\* total_trades, winning_trades and losing_trades count every one of them.
C28_ResultHoldsEveryTrade ==
  result.assembled =>
    /\ Len(result.trades) = closedCount + Len(positions)
    /\ result.total_trades = closedCount + Len(positions)
    /\ result.winning_trades + result.losing_trades = result.total_trades

\* C29: in every returned result, final_balance is initial_balance plus the
\* sum of the pnl of all trades of the result's trade list, those closed
\* with reason end_of_backtest included.
C29_FinalBalanceIsInitialPlusPnl ==
  result.assembled =>
    result.final_balance = result.initial_balance + sumPnl(result.trades)

\* C30: whatever the current price of a long position (stop_loss <
\* entry_price < take_profit), validateStopLossModification never accepts a
\* new stop below the position's stop nor one at or above the current
\* price; for a short position (take_profit < entry_price < stop_loss),
\* never one above the position's stop nor one at or below the current
\* price.
C30_AcceptedStopBetweenStopAndPrice ==
  (returned("validateStopLossModification") /\ call.ret.isValid) =>
    LET position == call.position
    IN  /\ (position.stop_loss < position.entry_price
            /\ position.entry_price < position.take_profit) =>
             /\ call.newStopLoss >= position.stop_loss
             /\ call.newStopLoss < position.current_price
        /\ (position.take_profit < position.entry_price
            /\ position.entry_price < position.stop_loss) =>
             /\ call.newStopLoss <= position.stop_loss
             /\ call.newStopLoss > position.current_price

====
